---- MODULE Spec2Model ----
(***************************************************************************)
(* A model of apfel's single-dispatch machinery (apfel/core/dispatch.py):  *)
(* the per-slot registries of an ABCDispatch interface and of a @dispatch  *)
(* function, the three dispatch flavours (instance, class, static method), *)
(* and the registration API (registry.add_impl, @impl, add_impl); of        *)
(* registrations and resolutions running in several threads; and of the    *)
(* write-once containers Once and Lazy (apfel/container/once.py); of the   *)
(* decorators of apfel/effect (once.py, hook.py); and of the optional      *)
(* value Maybe (apfel/container/maybe.py).                                 *)
(*                                                                         *)
(* Python objects are records tagged by the field t.  The classes and the  *)
(* interface are the fixtures of test/core/test_dispatch.py.               *)
(***************************************************************************)
EXTENDS Integers, Sequences, FiniteSets, TLC

VARIABLES
    registry,       \* slot -> (class -> stored implementation): DispatchRegistry.registry
    function,       \* slot -> the fallback body: DispatchRegistry.function
    abc_registry,   \* interface -> classes registered as virtual subclasses (ABCMeta.register)
    last,           \* the last operation: its arguments, what it gave back and,
                    \* for a registration, the registries it started from
    nregs,          \* number of registration calls made so far
    pc,             \* thread -> where it stands in add_impl or in dyn / decide_impl
    loc,            \* thread -> its local variables
    once,           \* a Once container: its fields _value and _has_value
    lazy,           \* a Lazy container: its fields _value, _has_value and _init
    ninit,          \* number of calls made so far to the initializers handed to
                    \* the containers (the counter a of test_lazy)
    once_fn,        \* a function under effect.once: func and the closure cell once_cache
    nbody,          \* number of times the body of that function has run
    hook,           \* a Hook: its fields list_lazy and list_eager
    ndecor,         \* number of functions the Hook has decorated
    maybe           \* name -> a Maybe object: its fields _val and _has_value

vars == <<registry, function, abc_registry, last, nregs, pc, loc, once, lazy, ninit,
          once_fn, nbody, hook, ndecor, maybe>>

\* The parts of the state that belong to the threads and to the containers.
thread_state == <<pc, loc>>
container_state == <<once, lazy, ninit>>
effect_state == <<once_fn, nbody, hook, ndecor>>
maybe_state == <<maybe>>

\* Bound on the number of registration calls of one behaviour.
MaxRegs == 2

\* Numbers of threads that register and that resolve at the same time.
MaxWriters == 2
MaxResolvers == 2

\* Bound on the calls of a Lazy's initializer (one that raises is called
\* again by every retrieval).
MaxInits == 2

\* Bounds on the runs of the body of a function under effect.once, on the
\* callbacks registered in one list of a Hook and on the functions a Hook
\* decorates.
MaxBody == 2
MaxCallbacks == 2
MaxDecor == 2

-----------------------------------------------------------------------------
(* Python values *)

NoneV == [t |-> "None"]
\* A function object: its __name__ and where it is defined ("" for module level).
Fn(owner, name) == [t |-> "function", fn |-> name, owner |-> owner]
ClassMethod(v) == [t |-> "classmethod", f |-> v]
StaticMethod(v) == [t |-> "staticmethod", f |-> v]
Method(f, self) == [t |-> "method", f |-> f, self |-> self]
Dyn(s) == [t |-> "dyn", slot |-> s]
Inst(c) == [t |-> "inst", cls |-> c]
Cls(c) == [t |-> "class", name |-> c]

\* The classes of the test fixtures: EmptyClass, A(ITest), MyFloat(float).
Classes == {"object", "float", "MyFloat", "EmptyClass", "ABCDispatch", "ITest", "A"}

\* cls.__mro__, most derived first.
mro(c) ==
    CASE c = "object"      -> <<"object">>
      [] c = "float"       -> <<"float", "object">>
      [] c = "MyFloat"     -> <<"MyFloat", "float", "object">>
      [] c = "EmptyClass"  -> <<"EmptyClass", "object">>
      [] c = "ABCDispatch" -> <<"ABCDispatch", "object">>
      [] c = "ITest"       -> <<"ITest", "ABCDispatch", "object">>
      [] c = "A"           -> <<"A", "ITest", "ABCDispatch", "object">>
      [] c = "Functor"     -> <<"Functor", "ABCDispatch", "object">>
      [] c = "Applicative" -> <<"Applicative", "Functor", "ABCDispatch", "object">>
      [] c = "Monad"       -> <<"Monad", "Applicative", "Functor", "ABCDispatch", "object">>
      [] c = "MyMaybe"     -> <<"MyMaybe", "Monad", "Applicative", "Functor", "ABCDispatch", "object">>
      [] c = "type"        -> <<"type", "object">>
      [] c = "ABCDispatchMeta" -> <<"ABCDispatchMeta", "ABCMeta", "type", "object">>
      [] OTHER             -> <<c, "object">>

Range(seq) == {seq[i] : i \in 1..Len(seq)}

\* type(c) of a class object c.
metaclass(c) == IF "ABCDispatch" \in Range(mro(c)) THEN "ABCDispatchMeta" ELSE "type"

\* isinstance(x, type)
is_type(x) == x.t = "class"

\* type(x); the dyn of a class or static slot is itself a class.
type_of(x) ==
    CASE x.t = "inst"  -> x.cls
      [] x.t = "class" -> metaclass(x.name)
      [] x.t = "dyn"   -> IF x.slot \in {"class_method", "static_method", "pure"} THEN "type" ELSE "function"
      [] OTHER         -> x.t

\* cls.__name__ / func.__name__
name_of(v) ==
    CASE v.t = "function"     -> v.fn
      [] v.t = "classmethod"  -> v.f.fn
      [] v.t = "staticmethod" -> v.f.fn
      [] OTHER                -> "?"

-----------------------------------------------------------------------------
(* The interface ITest and the @dispatch function f *)

Interfaces == {"ITest"}

\* ITest.__dispatch_methods__ and the function f made by @dispatch.
Slots == {"normal_method", "class_method", "static_method", "f"}

\* ABCDispatchMeta.__new__ chooses the registry class from the kind of method.
flavor(s) ==
    CASE s \in {"class_method", "pure"} -> "class"
      [] s = "static_method" -> "static"
      [] OTHER               -> "normal"

\* DispatchRegistry.enclosing_class: set by the metaclass, None for @dispatch.
enclosing_class(s) ==
    CASE s = "f"                 -> NoneV
      [] s = "map"               -> Cls("Functor")
      [] s \in {"pure", "apply"} -> Cls("Applicative")
      [] s = "bind"              -> Cls("Monad")
      [] OTHER                   -> Cls("ITest")

\* ITest.__dispatch_methods__: the abstract methods of the class body.
dispatch_methods(i) ==
    CASE i = "ITest"       -> {"normal_method", "class_method", "static_method"}
      [] i = "Functor"     -> {"map"}
      [] i = "Applicative" -> {"pure", "apply"}
      [] i = "Monad"       -> {"bind"}
      [] OTHER             -> {}

\* The abstract bodies ("blanket" implementations) as the metaclass sees them.
blanket(s) ==
    CASE s = "class_method"  -> ClassMethod(Fn("ITest", "class_method"))
      [] s = "static_method" -> StaticMethod(Fn("ITest", "static_method"))
      [] s = "normal_method" -> Fn("ITest", "normal_method")
      [] s = "pure"          -> ClassMethod(Fn("Applicative", "pure"))
      [] s \in {"map", "apply", "bind"} -> Fn(enclosing_class(s).name, s)
      [] OTHER               -> Fn("", s)

\* vars(cls): what a class body defines.  A overrides the three methods,
\* ITest holds the dispatch callables made by make_dispatch_func.
\* Applicative and Monad also define plain methods that override inherited
\* slots (map, apply); MyMaybe(Monad) defines pure and bind.
class_attrs(c) ==
    CASE c \in {"A", "ITest"} -> {"normal_method", "class_method", "static_method"}
      [] c = "Functor"        -> {"map"}
      [] c = "Applicative"    -> {"pure", "apply", "map"}
      [] c = "Monad"          -> {"bind", "apply", "map"}
      [] c = "MyMaybe"        -> {"pure", "bind"}
      [] c = "Own"            -> {"normal_method"}
      [] OTHER                -> {}

class_attr(c, name) ==
    IF name \in dispatch_methods(c) THEN Dyn(name)
    ELSE CASE name \in {"class_method", "pure"} -> ClassMethod(Fn(c, name))
           [] name = "static_method"            -> StaticMethod(Fn(c, name))
           [] OTHER                             -> Fn(c, name)

-----------------------------------------------------------------------------
(* Python's object model, as far as dispatch.py relies on it *)

Min(S) == CHOOSE x \in S : \A y \in S : x <= y

\* An assignment that drops every other entry of the dict.
dict_set_alone(d, k, v) == [c \in {k} |-> v]

\* The dict d with d[k] = v (inserts or overwrites).
dict_set(d, k, v) == [c \in (DOMAIN d) \cup {k} |-> IF c = k THEN v ELSE d[c]]

EmptyDict == [c \in {} |-> NoneV]

\* issubclass(c, i) for an ABC i (ABCMeta.__subclasscheck__): real
\* inheritance, or an ancestor of c registered as virtual subclass of i or of
\* a class derived from i.
issubclass(c, i) ==
    \/ i \in Range(mro(c))
    \/ \E j \in DOMAIN abc_registry :
            /\ i \in Range(mro(j))
            /\ \E r \in abc_registry[j] : r \in Range(mro(c))

\* isinstance(x, i)
isinstance(x, i) == x.t = "inst" /\ issubclass(x.cls, i)

\* getattr(ty, name, None) on a class: the first class of the MRO that defines
\* name; a classmethod comes bound to ty, a staticmethod unwrapped.
getattr(ty, name) ==
    LET m == mro(ty)
        hits == {i \in 1..Len(m) : name \in class_attrs(m[i])}
    IN  IF hits = {} THEN NoneV
        ELSE LET v == class_attr(m[Min(hits)], name)
             IN  CASE v.t = "classmethod"  -> Method(v.f, Cls(ty))
                   [] v.t = "staticmethod" -> v.f
                   [] OTHER                -> v

AttributeError(what) == [t |-> "error", exc |-> "AttributeError", msg |-> <<what, "__get__">>]

\* v.__get__(obj): the one-argument descriptor call of __class_getitem__.
\* classmethod.__get__(obj) binds to type(obj); a bound method is rebound to
\* obj; a class (the dyn of a class or static slot) has no __get__.
descr_get(v, obj) ==
    CASE v.t = "classmethod" ->
            IF v.f.t = "staticmethod" THEN v.f.f
            ELSE Method(v.f, Cls(type_of(obj)))
      [] v.t = "staticmethod" -> v.f
      [] v.t = "method"       -> Method(v.f, obj)
      [] v.t = "function"     -> Method(v, obj)
      [] v.t = "dyn"          -> IF type_of(v) = "type" THEN AttributeError(v.slot)
                                 ELSE Method(v, obj)
      [] OTHER                -> AttributeError(v.t)

\* The functions of the fixtures take *args, **kwargs and report what they
\* were called with; impl_raises raises instead, unimplemented always raises.
body(fn, pos, kw) ==
    CASE fn.fn = "impl_raises" ->
            [kind |-> "raise", exc |-> "Exception", by |-> fn, pos |-> pos, kw |-> kw]
      [] fn.fn = "unimplemented" ->
            [kind |-> "raise", exc |-> "NotImplementedError", by |-> fn, pos |-> pos, kw |-> kw]
      [] OTHER ->
            [kind |-> "return", by |-> fn, pos |-> pos, kw |-> kw]

NotCallable(what) == [kind |-> "raise", exc |-> "TypeError", msg |-> <<what, "object is not callable">>]

\* v(*pos, **kw): functions, bound methods and staticmethod objects are
\* callable, classmethod objects are not.
call(v, pos, kw) ==
    CASE v.t = "function" -> body(v, pos, kw)
      [] v.t = "method" /\ v.f.t = "function" -> body(v.f, <<v.self>> \o pos, kw)
      [] v.t = "staticmethod" /\ v.f.t = "function" -> body(v.f, pos, kw)
      [] OTHER -> NotCallable(type_of(v))

-----------------------------------------------------------------------------
(* Resolution: DispatchRegistry.decide_impl and its class-method variant *)

\* The error with the type left out of the message.
no_impl_untyped(s, ty) ==
    [via |-> "raise", exc |-> "NotImplementedError",
     msg |-> <<"No implementation">>
             \o (IF enclosing_class(s) # NoneV THEN <<"of", enclosing_class(s).name>> ELSE <<>>)]

\* The NotImplementedError of decide_impl: the message names the enclosing
\* class, if there is one, and the type.
no_impl(s, ty) ==
    [via |-> "raise", exc |-> "NotImplementedError",
     msg |-> <<"No implementation">>
             \o (IF enclosing_class(s) # NoneV THEN <<"of", enclosing_class(s).name>> ELSE <<>>)
             \o <<"found for", ty>>]

\* The lookup with the walk reversed: the farthest registered ancestor wins.
mro_lookup_farthest(s, ty) ==
    LET m == mro(ty)
        hits == {i \in 1..Len(m) : m[i] \in DOMAIN registry[s]}
        far == CHOOSE i \in hits : \A j \in hits : j <= i
    IN  IF hits = {} THEN no_impl(s, ty)
        ELSE [via |-> "registry", key |-> m[far], impl |-> registry[s][m[far]]]

\* for cls in ty.__mro__: if cls in self.registry: return self.registry[cls]
\* and the raise that follows the loop.
mro_lookup(s, ty) ==
    LET m == mro(ty)
        hits == {i \in 1..Len(m) : m[i] \in DOMAIN registry[s]}
    IN  IF hits = {} THEN no_impl(s, ty)
        ELSE [via |-> "registry", key |-> m[Min(hits)], impl |-> registry[s][m[Min(hits)]]]

\* decide_impl without the inheritance fast path: the registry alone decides.
decide_impl_registry_only(s, receiver) == mro_lookup(s, type_of(receiver))

\* DispatchRegistry.decide_impl(receiver, ...)
decide_impl(s, receiver) ==
    LET ty == type_of(receiver)
        enc == enclosing_class(s)
        attr == IF enc # NoneV /\ isinstance(receiver, enc.name)
                THEN getattr(ty, name_of(function[s]))
                ELSE NoneV
    IN  IF attr # NoneV THEN [via |-> "override", impl |-> attr]
        ELSE mro_lookup(s, ty)

\* DispatchRegistryForClassMethod.decide_impl(ty_or_receiver)
decide_impl_cls(s, ty_or_receiver) ==
    LET ty == IF is_type(ty_or_receiver) THEN ty_or_receiver.name ELSE type_of(ty_or_receiver)
        enc == enclosing_class(s)
        attr == IF enc # NoneV /\ issubclass(ty, enc.name)
                THEN getattr(ty, name_of(function[s]))
                ELSE NoneV
    IN  IF attr # NoneV THEN [via |-> "override", impl |-> attr]
        ELSE mro_lookup(s, ty)

Raise(d) == [kind |-> "raise", exc |-> d.exc, msg |-> d.msg]

\* dyn calling the implementation with the remaining arguments only.
dyn_drop_receiver(s, receiver, pos, kw) ==
    LET d == decide_impl(s, receiver)
    IN  IF d.via = "raise" THEN Raise(d)
        ELSE call(d.impl, pos, kw)

\* DispatchRegistry.make_dispatch_func: dyn(*args, **kwargs)
dyn(s, receiver, pos, kw) ==
    LET d == decide_impl(s, receiver)
    IN  IF d.via = "raise" THEN Raise(d)
        ELSE call(d.impl, <<receiver>> \o pos, kw)

\* DispatchRegistryForClassMethod.make_dispatch_func: dyn.__new__, which is
\* what calling the slot through the interface runs.
dyn_new_cls(s, first, pos, kw) ==
    LET bound == descr_get(function[s], Dyn(s))
    IN  IF bound.t = "error" THEN Raise(bound)
        ELSE call(bound, <<first>> \o pos, kw)

\* DispatchRegistryForStaticMethod.make_dispatch_func: dyn.__new__
dyn_new_static(s, first, pos, kw) == call(function[s], <<first>> \o pos, kw)

\* Trait.class_method[key](*pos, **kw): dyn.__class_getitem__ binds the
\* decided implementation with impl.__get__(key).
dyn_getitem_cls(s, key, pos, kw) ==
    LET d == decide_impl_cls(s, key)
    IN  IF d.via = "raise" THEN Raise(d)
        ELSE LET bound == descr_get(d.impl, key)
             IN  IF bound.t = "error" THEN Raise(bound)
                 ELSE call(bound, pos, kw)

\* Trait.static_method[key](*pos, **kw): the decided implementation as it is.
dyn_getitem_static(s, key, pos, kw) ==
    LET d == decide_impl_cls(s, key)
    IN  IF d.via = "raise" THEN Raise(d)
        ELSE call(d.impl, pos, kw)

-----------------------------------------------------------------------------
(* Registration *)

Ok == [kind |-> "return"]
ValueError(msg) == [kind |-> "raise", exc |-> "ValueError", msg |-> msg]

\* What the add_impl of each registry class stores: the class-method registry
\* wraps in classmethod; the static-method registry wraps in staticmethod and
\* then runs the class-method registry's add_impl on the result.
stored(s, func) ==
    LET as_cls(g) == IF g.t = "classmethod" THEN g ELSE ClassMethod(g)
        as_static(g) == IF g.t = "staticmethod" THEN g ELSE StaticMethod(g)
    IN  CASE flavor(s) = "class"  -> as_cls(func)
          [] flavor(s) = "static" -> as_cls(as_static(func))
          [] OTHER                -> func

\* add_impl keeping an existing entry (dict.setdefault instead of assignment).
registry_add_impl_first_wins(reg, s, func, args) ==
    IF Len(args) # 1
    THEN [reg |-> reg, res |-> ValueError(<<"Single dispatch only supports one argument">>)]
    ELSE IF ~is_type(args[1])
    THEN [reg |-> reg, res |-> ValueError(<<"Single dispatch only supports dispatching based on types">>)]
    ELSE [reg |-> IF args[1].name \in DOMAIN reg[s] THEN reg
                  ELSE [reg EXCEPT ![s] = dict_set(@, args[1].name, stored(s, func))],
          res |-> Ok]

\* add_impl without the isinstance(ty, type) check: anything is taken as key.
registry_add_impl_any_key(reg, s, func, args) ==
    IF Len(args) # 1
    THEN [reg |-> reg, res |-> ValueError(<<"Single dispatch only supports one argument">>)]
    ELSE [reg |-> [reg EXCEPT ![s] = dict_set(@, IF is_type(args[1]) THEN args[1].name
                                                  ELSE args[1].cls, stored(s, func))],
          res |-> Ok]

\* add_impl writing into one table that all slots of the same flavour share.
registry_add_impl_shared_table(reg, s, func, args) ==
    IF Len(args) # 1
    THEN [reg |-> reg, res |-> ValueError(<<"Single dispatch only supports one argument">>)]
    ELSE IF ~is_type(args[1])
    THEN [reg |-> reg, res |-> ValueError(<<"Single dispatch only supports dispatching based on types">>)]
    ELSE [reg |-> [s2 \in DOMAIN reg |->
                      IF s2 = s \/ s2 = "f"
                      THEN dict_set(reg[s2], args[1].name, stored(s, func))
                      ELSE reg[s2]],
          res |-> Ok]

\* DispatchRegistry.add_impl(func, *args) on the registries reg: the new
\* registries and what the call gave back.
registry_add_impl(reg, s, func, args) ==
    IF Len(args) # 1
    THEN [reg |-> reg, res |-> ValueError(<<"Single dispatch only supports one argument">>)]
    ELSE IF ~is_type(args[1])
    THEN [reg |-> reg, res |-> ValueError(<<"Single dispatch only supports dispatching based on types">>)]
    ELSE [reg |-> [reg EXCEPT ![s] = dict_set(@, args[1].name, stored(s, func))],
          res |-> Ok]

\* DispatchRegistry.get_impl(*args): the same two checks as add_impl, then
\* self.registry.get(ty, self.function).
get_impl(s, args) ==
    IF Len(args) # 1
    THEN ValueError(<<"Single dispatch only supports one argument">>)
    ELSE IF ~is_type(args[1])
    THEN ValueError(<<"Single dispatch only supports dispatching based on types">>)
    ELSE [kind |-> "return",
          value |-> IF args[1].name \in DOMAIN registry[s] THEN registry[s][args[1].name]
                    ELSE function[s]]

TypeError(msg) == [kind |-> "raise", exc |-> "TypeError", msg |-> msg]

\* The checks impl(definition) and its decorator make before the loop: both
\* arguments are classes and the implementation class has a base
\* (impl.__base__ is None for object alone).
impl_checks(definition, impl) ==
    IF ~is_type(definition) THEN TypeError(<<definition, "cannot dispatch">>)
    ELSE IF ~is_type(impl) THEN TypeError(<<impl, "cannot be an implementation">>)
    ELSE IF impl.name = "object"
    THEN ValueError(<<impl, "not subclassing any class is not a valid implementation">>)
    ELSE Ok

\* isinstance(func, (FunctionType, classmethod, staticmethod))
is_method_like(v) == v.t \in {"function", "classmethod", "staticmethod"}

\* The loop of impl.decorator looking the name up on the interface, as the
\* module-level add_impl does: whatever slot getattr finds is accepted.
RECURSIVE impl_loop_by_getattr(_, _, _, _)
impl_loop_by_getattr(reg, definition, impl_for, items) ==
    IF items = <<>> THEN [reg |-> reg, res |-> Ok]
    ELSE LET e == Head(items)
             attr == getattr(definition, e.name)
         IN  IF ~is_method_like(e.func)
             THEN impl_loop_by_getattr(reg, definition, impl_for, Tail(items))
             ELSE IF attr = NoneV \/ attr.t # "dyn"
             THEN [reg |-> reg,
                   res |-> ValueError(<<e.name, "of", definition, "does not support dispatching">>)]
             ELSE LET r == registry_add_impl(reg, attr.slot, e.func, <<Cls(impl_for)>>)
                  IN  IF r.res.kind = "raise" THEN r
                      ELSE impl_loop_by_getattr(r.reg, definition, impl_for, Tail(items))

\* The first loop of impl.decorator over vars(impl).items(), in the order of
\* the class body: each entry is checked and registered in turn.
RECURSIVE impl_loop(_, _, _, _)
impl_loop(reg, definition, impl_for, items) ==
    IF items = <<>> THEN [reg |-> reg, res |-> Ok]
    ELSE LET e == Head(items)
         IN  IF ~is_method_like(e.func)
             THEN impl_loop(reg, definition, impl_for, Tail(items))
             ELSE IF e.name \notin dispatch_methods(definition)
             THEN [reg |-> reg,
                   res |-> ValueError(<<e.name, "of", definition, "does not support dispatching">>)]
             ELSE LET r == registry_add_impl(reg, e.name, e.func, <<Cls(impl_for)>>)
                  IN  IF r.res.kind = "raise" THEN r
                      ELSE impl_loop(r.reg, definition, impl_for, Tail(items))

\* register leaving the ABC's registry as it is.
abc_register_noop(i, c) == [abc |-> abc_registry, res |-> Ok]

\* ABCMeta.register(subclass), called by impl.decorator after the loop.
abc_register(i, c) ==
    IF issubclass(c, i) THEN [abc |-> abc_registry, res |-> Ok]
    ELSE IF c \in Range(mro(i))
    THEN [abc |-> abc_registry,
          res |-> [kind |-> "raise", exc |-> "RuntimeError",
                   msg |-> <<"Refusing to create an inheritance cycle">>]]
    ELSE [abc |-> [abc_registry EXCEPT ![i] = @ \cup {c}], res |-> Ok]

\* The loop of the module-level add_impl(definition, impl, *impl_for_args)
\* over impl.items(): getattr(definition, name).__dispatch__.add_impl(...).
RECURSIVE add_impl_loop(_, _, _, _)
add_impl_loop(reg, definition, items, args) ==
    IF items = <<>> THEN [reg |-> reg, res |-> Ok]
    ELSE LET e == Head(items)
             attr == getattr(definition, e.name)
         IN  IF attr = NoneV
             THEN [reg |-> reg,
                   res |-> [kind |-> "raise", exc |-> "AttributeError",
                            msg |-> <<"type object", definition, "has no attribute", e.name>>]]
             ELSE IF attr.t # "dyn"
             THEN [reg |-> reg,
                   res |-> [kind |-> "raise", exc |-> "AttributeError",
                            msg |-> <<attr.t, "object has no attribute", "__dispatch__">>]]
             ELSE LET r == registry_add_impl(reg, attr.slot, e.func, args)
                  IN  IF r.res.kind = "raise" THEN r
                      ELSE add_impl_loop(r.reg, definition, Tail(items), args)

-----------------------------------------------------------------------------
(* Inputs of the operations *)

\* The argument 1 of the tests.
One == [t |-> "inst", cls |-> "int", v |-> 1]

\* The remaining arguments of the calls of the tests: (1, a="a").
ArgPacks == {[pos |-> <<One>>, kw |-> {<<"a", "a">>}]}

\* Instances passed as receivers; instances and classes passed as keys.
Receivers == {Inst(c) : c \in {"MyFloat", "EmptyClass", "A"}}
Keys == Receivers \cup {Cls(c) : c \in {"MyFloat", "EmptyClass", "A"}}

\* Implementations handed to registry.add_impl / f.impl_for.
UserFuncs == {Fn("", "impl_float"), Fn("", "impl_raises")}

\* The *args naming the implementor: one class, or a malformed list.
Implementors ==
    {<<Cls(c)>> : c \in {"float", "MyFloat"}}
    \cup {<<>>, <<Inst("float")>>, <<Cls("float"), Cls("MyFloat")>>}

\* The bases of the classes handed to @impl(ITest).
ImplBases == {"float", "A", "object"}

\* The method names of an implementation class body or mapping, in order.
BodyNames ==
    {<<"normal_method", "class_method", "static_method">>,
     <<"normal_method">>,
     <<"normal_method", "bogus", "class_method">>,
     <<"bogus">>}

\* What the lookup specification hands to registry.add_impl as func: a
\* function, or the int 1, which is not callable.
Registrants == {Fn("", "impl_float"), One}

\* What it hands to impl(...) as definition and to the decorator as impl.
DefinitionArgs == {Cls("ITest"), Inst("float")}
ImplArgs == {Fn("", "impl_float"), Cls("object")}

\* The interfaces of apfel.core.monad, their slots, and what the monad
\* specification registers and dispatches on: the built-in types list and
\* dict, and MyMaybe(Monad) of test_monad.py.
MonadInterfaces == {"Functor", "Applicative", "Monad"}
MonadSlots == {"map", "pure", "apply", "bind"}
MonadBases == {"list", "dict"}
MonadBodies == {<<"map">>, <<"pure", "apply">>, <<"bind">>, <<"bind", "pure">>}
MonadReceivers == {Inst(c) : c \in {"list", "dict", "MyMaybe"}}

\* vars(impl).items() of "class _(base)": methods decorated as the slot is.
class_items(names) ==
    [i \in 1..Len(names) |->
        [name |-> names[i],
         func |-> CASE names[i] \in {"class_method", "pure"} -> ClassMethod(Fn("_", names[i]))
                    [] names[i] = "static_method" -> StaticMethod(Fn("_", names[i]))
                    [] OTHER                      -> Fn("_", names[i])]]

\* impl.items() of a mapping of names to plain functions.
mapping_items(names) ==
    [i \in 1..Len(names) |-> [name |-> names[i], func |-> Fn("", names[i])]]

-----------------------------------------------------------------------------
(* The state machine *)

\* No thread is running; no container has been made.
NoThreads == pc = <<>> /\ loc = <<>>
NoContainers == once = NoneV /\ lazy = NoneV /\ ninit = 0
NoEffects == once_fn = NoneV /\ nbody = 0 /\ hook = NoneV /\ ndecor = 0
NoMaybes == maybe = <<>>

\* After the class statement of ITest and @dispatch: every registry is empty
\* (DispatchRegistry.__init__); f may have been made without a fallback.
Init ==
    /\ registry = [s \in Slots |-> EmptyDict]
    /\ function \in {[s \in Slots |-> IF s = "f" THEN d ELSE blanket(s)] :
                        d \in {blanket("f"), Fn("", "unimplemented")}}
    /\ abc_registry = [i \in Interfaces |-> {}]
    /\ last = [op |-> "init"]
    /\ nregs = 0
    /\ NoThreads
    /\ NoContainers
    /\ NoEffects
    /\ NoMaybes

\* ITest.normal_method(receiver, *pos, **kw) and f(receiver, *pos, **kw)
Call(s, receiver, ap) ==
    /\ flavor(s) = "normal"
    /\ last' = [op |-> "call", slot |-> s, arg |-> receiver, pos |-> ap.pos, kw |-> ap.kw,
                decided |-> decide_impl(s, receiver),
                res |-> dyn(s, receiver, ap.pos, ap.kw)]
    /\ UNCHANGED <<registry, function, abc_registry, nregs>>
    /\ UNCHANGED <<thread_state, container_state, effect_state, maybe_state>>

\* ITest.class_method(first, *pos, **kw) and ITest.static_method(first, ...)
CallNew(s, first, ap) ==
    /\ flavor(s) # "normal"
    /\ last' = [op |-> "new", slot |-> s, arg |-> first, pos |-> ap.pos, kw |-> ap.kw,
                res |-> IF flavor(s) = "class"
                        THEN dyn_new_cls(s, first, ap.pos, ap.kw)
                        ELSE dyn_new_static(s, first, ap.pos, ap.kw)]
    /\ UNCHANGED <<registry, function, abc_registry, nregs>>
    /\ UNCHANGED <<thread_state, container_state, effect_state, maybe_state>>

\* ITest.class_method[key](*pos, **kw) and ITest.static_method[key](...)
GetItem(s, key, ap) ==
    /\ flavor(s) # "normal"
    /\ last' = [op |-> "getitem", slot |-> s, arg |-> key, pos |-> ap.pos, kw |-> ap.kw,
                decided |-> decide_impl_cls(s, key),
                res |-> IF flavor(s) = "class"
                        THEN dyn_getitem_cls(s, key, ap.pos, ap.kw)
                        ELSE dyn_getitem_static(s, key, ap.pos, ap.kw)]
    /\ UNCHANGED <<registry, function, abc_registry, nregs>>
    /\ UNCHANGED <<thread_state, container_state, effect_state, maybe_state>>

\* slot.__dispatch__.add_impl(func, *args), also f.impl_for(cls)(func)
RegistryAddImpl(s, func, args) ==
    /\ nregs < MaxRegs
    /\ LET r == registry_add_impl(registry, s, func, args)
       IN  /\ registry' = r.reg
           /\ last' = [op |-> "registry.add_impl", slot |-> s, func |-> func,
                       args |-> args, before |-> registry, res |-> r.res]
    /\ nregs' = nregs + 1
    /\ UNCHANGED <<function, abc_registry>>
    /\ UNCHANGED <<thread_state, container_state, effect_state, maybe_state>>

\* @impl(definition) class _(impl_for): <names>
Impl(definition, impl_for, names) ==
    /\ nregs < MaxRegs
    /\ LET r == impl_loop(registry, definition, impl_for, class_items(names))
           a == abc_register(definition, impl_for)
       IN  /\ registry' = r.reg
           /\ abc_registry' = IF r.res.kind = "raise" THEN abc_registry ELSE a.abc
           /\ last' = [op |-> "impl", definition |-> definition, impl_for |-> impl_for,
                       names |-> names, before |-> registry,
                       res |-> IF r.res.kind = "raise" THEN r.res ELSE a.res]
    /\ nregs' = nregs + 1
    /\ UNCHANGED function
    /\ UNCHANGED <<thread_state, container_state, effect_state, maybe_state>>

\* add_impl(definition, {name: func, ...}, *args)
AddImpl(definition, names, args) ==
    /\ nregs < MaxRegs
    /\ LET r == add_impl_loop(registry, definition, mapping_items(names), args)
       IN  /\ registry' = r.reg
           /\ last' = [op |-> "add_impl", definition |-> definition, names |-> names,
                       args |-> args, before |-> registry, res |-> r.res]
    /\ nregs' = nregs + 1
    /\ UNCHANGED <<function, abc_registry>>
    /\ UNCHANGED <<thread_state, container_state, effect_state, maybe_state>>

\* slot.__dispatch__.get_impl(*args)
GetImpl(s, args) ==
    /\ last' = [op |-> "get_impl", slot |-> s, args |-> args, res |-> get_impl(s, args)]
    /\ UNCHANGED <<registry, function, abc_registry, nregs>>
    /\ UNCHANGED <<thread_state, container_state, effect_state, maybe_state>>

\* impl(definition)(impl) stopped by one of its checks before the loop.
ImplInvalid(definition, impl) ==
    /\ nregs < MaxRegs
    /\ impl_checks(definition, impl) # Ok
    /\ last' = [op |-> "impl.invalid", definition |-> definition, impl |-> impl,
                before |-> registry, res |-> impl_checks(definition, impl)]
    /\ nregs' = nregs + 1
    /\ UNCHANGED <<registry, function, abc_registry>>
    /\ UNCHANGED <<thread_state, container_state, effect_state, maybe_state>>

\* definition.register(impl_for) called directly, as do_impl_for_function
\* does after add_impl.
Register(definition, impl_for) ==
    /\ nregs < MaxRegs
    /\ LET a == abc_register(definition, impl_for)
       IN  /\ abc_registry' = a.abc
           /\ last' = [op |-> "register", definition |-> definition, impl_for |-> impl_for,
                       before |-> registry, res |-> a.res]
    /\ nregs' = nregs + 1
    /\ UNCHANGED <<registry, function>>
    /\ UNCHANGED <<thread_state, container_state, effect_state, maybe_state>>

Next ==
    \/ \E s \in Slots, r \in Receivers, ap \in ArgPacks : Call(s, r, ap)
    \/ \E s \in Slots, k \in Keys, ap \in ArgPacks : CallNew(s, k, ap)
    \/ \E s \in Slots, k \in Keys, ap \in ArgPacks : GetItem(s, k, ap)
    \/ \E s \in Slots, g \in UserFuncs, args \in Implementors : RegistryAddImpl(s, g, args)
    \/ \E i \in Interfaces, c \in ImplBases, names \in BodyNames : Impl(i, c, names)
    \/ \E i \in Interfaces, names \in BodyNames, args \in Implementors : AddImpl(i, names, args)

Spec == Init /\ [][Next]_vars

\* The registration API with malformed arguments and non-callable
\* implementations, registry lookups, and receiver-dispatch calls.
NextLookup ==
    \/ \E s \in Slots, g \in Registrants, args \in Implementors : RegistryAddImpl(s, g, args)
    \/ \E i \in Interfaces, names \in BodyNames, args \in Implementors : AddImpl(i, names, args)
    \/ \E d \in DefinitionArgs, c \in ImplArgs : ImplInvalid(d, c)
    \/ \E s \in Slots, args \in Implementors : GetImpl(s, args)
    \/ \E s \in Slots, r \in Receivers, ap \in ArgPacks : Call(s, r, ap)

SpecLookup == Init /\ [][NextLookup]_vars

\* After the class statements of Functor, Applicative and Monad, before any
\* implementation is registered.
InitMonad ==
    /\ registry = [s \in MonadSlots |-> EmptyDict]
    /\ function = [s \in MonadSlots |-> blanket(s)]
    /\ abc_registry = [i \in MonadInterfaces |-> {}]
    /\ last = [op |-> "init"]
    /\ nregs = 0
    /\ NoThreads
    /\ NoContainers
    /\ NoEffects
    /\ NoMaybes

\* Registrations on the three interfaces, by @impl, by add_impl and by
\* register, and dispatch through them.
NextMonad ==
    \/ \E i \in MonadInterfaces, c \in MonadBases, names \in MonadBodies : Impl(i, c, names)
    \/ \E i \in MonadInterfaces, c \in MonadBases, names \in MonadBodies :
            AddImpl(i, names, <<Cls(c)>>)
    \/ \E i \in MonadInterfaces, c \in MonadBases : Register(i, c)
    \/ \E s \in MonadSlots, r \in MonadReceivers, ap \in ArgPacks : Call(s, r, ap)
    \/ \E s \in MonadSlots, r \in MonadReceivers, ap \in ArgPacks : GetItem(s, Cls(r.cls), ap)

SpecMonad == InitMonad /\ [][NextMonad]_vars

\* Classes that do not inherit from ITest and are registered for it: Own
\* defines a method named normal_method itself, EmptyClass defines nothing.
RegisteredBases == {"Own", "EmptyClass"}
RegisteredReceivers == {Inst(c) : c \in RegisteredBases \cup {"A"}}

\* Registrations for such classes, by @impl and on the slot's registry, and
\* calls of the slots with their instances.
NextRegistered ==
    \/ \E c \in RegisteredBases, names \in BodyNames : Impl("ITest", c, names)
    \/ \E s \in Slots, g \in UserFuncs, c \in RegisteredBases :
            RegistryAddImpl(s, g, <<Cls(c)>>)
    \/ \E s \in Slots, r \in RegisteredReceivers, ap \in ArgPacks : Call(s, r, ap)

SpecRegistered == Init /\ [][NextRegistered]_vars

-----------------------------------------------------------------------------
(* Registrations and resolutions in several threads *)

(***************************************************************************)
(* The code takes no lock.  Threads interleave between bytecodes; one dict *)
(* operation (cls in registry, registry[cls], registry[ty] = func) is one  *)
(* step.  Every writer thread calls f.__dispatch__.add_impl(g, float) once *)
(* and every resolver thread calls f(MyFloat(...), 1, a="a") again and     *)
(* again, f being a @dispatch function with a default body.                *)
(***************************************************************************)
Writers == {<<"add", k>> : k \in 1..MaxWriters}
Resolvers == {<<"call", k>> : k \in 1..MaxResolvers}
Threads == Writers \cup Resolvers

RaceSlot == "f"
RaceKey == "float"
RaceReceiver == Inst("MyFloat")
\* The implementation registered for float before the threads start, if any.
RaceEarlier == Fn("", "impl_earlier")

NoLocals == [step |-> "none"]

InitRace ==
    /\ registry \in {[s \in Slots |-> IF s = RaceSlot THEN d ELSE EmptyDict] :
                        d \in {EmptyDict, dict_set(EmptyDict, RaceKey, RaceEarlier)}}
    /\ function = [s \in Slots |-> blanket(s)]
    /\ abc_registry = [i \in Interfaces |-> {}]
    /\ last = [op |-> "init"]
    /\ nregs = 0
    /\ pc = [t \in Threads |-> "idle"]
    /\ loc = [t \in Threads |-> NoLocals]
    /\ NoContainers
    /\ NoEffects
    /\ NoMaybes

\* A writer enters add_impl(g, float): its arguments are bound.
AddBegin(t, g) ==
    /\ t \in Writers
    /\ pc[t] = "idle"
    /\ pc' = [pc EXCEPT ![t] = "add_impl"]
    /\ loc' = [loc EXCEPT ![t] = [func |-> g, args |-> <<Cls(RaceKey)>>]]
    /\ UNCHANGED <<registry, function, abc_registry, last, nregs, container_state, effect_state, maybe_state>>

\* The body of add_impl: the checks, which read the arguments only, and the
\* assignment self.registry[ty] = func.
AddStore(t) ==
    /\ pc[t] = "add_impl"
    /\ LET r == registry_add_impl(registry, RaceSlot, loc[t].func, loc[t].args)
       IN  /\ registry' = r.reg
           /\ loc' = [loc EXCEPT ![t] = [func |-> loc[t].func, args |-> loc[t].args,
                                          res |-> r.res]]
    /\ pc' = [pc EXCEPT ![t] = "done"]
    /\ nregs' = nregs + 1
    /\ UNCHANGED <<function, abc_registry, last, container_state, effect_state, maybe_state>>

\* A resolver enters dyn and decide_impl: f has no enclosing class, so the
\* walk over type(receiver).__mro__ starts at once.
ResolveBegin(t) ==
    /\ t \in Resolvers
    /\ pc[t] \in {"idle", "done"}
    /\ enclosing_class(RaceSlot) = NoneV
    /\ pc' = [pc EXCEPT ![t] = "walk"]
    /\ loc' = [loc EXCEPT ![t] = [receiver |-> RaceReceiver, i |-> 1]]
    /\ UNCHANGED <<registry, function, abc_registry, last, nregs, container_state, effect_state, maybe_state>>

\* if cls in self.registry, for the class the walk stands at; after the
\* last class the loop ends and decide_impl raises.
ResolveTest(t) ==
    /\ pc[t] = "walk"
    /\ LET m == mro(type_of(loc[t].receiver))
           i == loc[t].i
       IN  IF m[i] \in DOMAIN registry[RaceSlot]
           THEN /\ pc' = [pc EXCEPT ![t] = "read"]
                /\ loc' = loc
           ELSE IF i < Len(m)
           THEN /\ pc' = pc
                /\ loc' = [loc EXCEPT ![t].i = i + 1]
           ELSE /\ pc' = [pc EXCEPT ![t] = "done"]
                /\ loc' = [loc EXCEPT ![t] =
                             [receiver |-> loc[t].receiver,
                              res |-> Raise(no_impl(RaceSlot, type_of(loc[t].receiver)))]]
    /\ UNCHANGED <<registry, function, abc_registry, last, nregs, container_state, effect_state, maybe_state>>

\* return self.registry[cls]
ResolveRead(t) ==
    /\ pc[t] = "read"
    /\ LET m == mro(type_of(loc[t].receiver))
       IN  loc' = [loc EXCEPT ![t] = [receiver |-> loc[t].receiver, key |-> m[loc[t].i],
                                      impl |-> registry[RaceSlot][m[loc[t].i]]]]
    /\ pc' = [pc EXCEPT ![t] = "call"]
    /\ UNCHANGED <<registry, function, abc_registry, last, nregs, container_state, effect_state, maybe_state>>

\* dyn calls what decide_impl returned.
ResolveCall(t) ==
    /\ pc[t] = "call"
    /\ \E ap \in ArgPacks :
            loc' = [loc EXCEPT ![t] =
                      [receiver |-> loc[t].receiver, key |-> loc[t].key, impl |-> loc[t].impl,
                       res |-> call(loc[t].impl, <<loc[t].receiver>> \o ap.pos, ap.kw)]]
    /\ pc' = [pc EXCEPT ![t] = "done"]
    /\ UNCHANGED <<registry, function, abc_registry, last, nregs, container_state, effect_state, maybe_state>>

NextRace ==
    \/ \E t \in Writers, g \in UserFuncs : AddBegin(t, g)
    \/ \E t \in Writers : AddStore(t)
    \/ \E t \in Resolvers : ResolveBegin(t)
    \/ \E t \in Resolvers : ResolveTest(t)
    \/ \E t \in Resolvers : ResolveRead(t)
    \/ \E t \in Resolvers : ResolveCall(t)

SpecRace == InitRace /\ [][NextRace]_vars

-----------------------------------------------------------------------------
(* The containers Once and Lazy of apfel/container/once.py *)

Ellipsis == [t |-> "Ellipsis"]
IntV(n) == [t |-> "inst", cls |-> "int", v |-> n]
Return(v) == [kind |-> "return", value |-> v]

\* Once.__init__ and Lazy.__init__
once_init == [value |-> Ellipsis, has_value |-> FALSE]
lazy_init(f) == [value |-> Ellipsis, has_value |-> FALSE, init |-> f]

\* The initializers of the tests: lambda: 1, lambda: 2, lambda: 42, a
\* function that returns a new object() on every call, and one that raises.
Const(n) == [kind |-> "const", value |-> IntV(n)]
NewObject == [kind |-> "object"]
Raising == [kind |-> "raises"]

\* f(), as the n-th initializer call: a new object is known by that number.
call_init(f, n) ==
    CASE f.kind = "const"  -> Return(f.value)
      [] f.kind = "object" -> Return([t |-> "object", id |-> n])
      [] OTHER             -> [kind |-> "raise", exc |-> "Exception"]

\* Each method gives the container after the call, what the call gave back
\* and whether it called an initializer.

\* set that writes also when a value is there.
once_set_always(o, v) ==
    [c |-> [value |-> v, has_value |-> TRUE], res |-> Return(NoneV), invoked |-> FALSE]

\* Once.set(value)
once_set(o, v) ==
    IF o.has_value THEN [c |-> o, res |-> Return(NoneV), invoked |-> FALSE]
    ELSE [c |-> [value |-> v, has_value |-> TRUE], res |-> Return(NoneV), invoked |-> FALSE]

\* Once.unwrap()
once_unwrap(o) ==
    IF ~o.has_value
    THEN [c |-> o, res |-> ValueError(<<"called Once.unwrap() on an unset value.">>),
          invoked |-> FALSE]
    ELSE [c |-> o, res |-> Return(o.value), invoked |-> FALSE]

\* Once.get_or_init(f): an exception of f() leaves both fields as they were.
once_get_or_init(o, f) ==
    IF ~o.has_value
    THEN LET r == call_init(f, 1)
         IN  IF r.kind = "raise" THEN [c |-> o, res |-> r, invoked |-> TRUE]
             ELSE [c |-> [value |-> r.value, has_value |-> TRUE], res |-> r, invoked |-> TRUE]
    ELSE [c |-> o, res |-> Return(o.value), invoked |-> FALSE]

\* A retrieval that calls the initializer whether or not a value is cached.
lazy_value_always_init(l, n) ==
    LET r == call_init(l.init, n + 1)
    IN  IF r.kind = "raise" THEN [c |-> l, res |-> r, invoked |-> TRUE]
        ELSE [c |-> [l EXCEPT !.value = r.value, !.has_value = TRUE], res |-> r,
              invoked |-> TRUE]

\* Lazy.value(), n initializer calls having been made before.
lazy_value(l, n) ==
    IF l.has_value THEN [c |-> l, res |-> Return(l.value), invoked |-> FALSE]
    ELSE LET r == call_init(l.init, n + 1)
         IN  IF r.kind = "raise" THEN [c |-> l, res |-> r, invoked |-> TRUE]
             ELSE [c |-> [l EXCEPT !.value = r.value, !.has_value = TRUE], res |-> r,
                   invoked |-> TRUE]

\* __call__ that sets the flag before it calls the initializer.
lazy_call_flag_first(l, n) ==
    IF l.has_value THEN [c |-> l, res |-> Return(l.value), invoked |-> FALSE]
    ELSE LET r == call_init(l.init, n + 1)
         IN  IF r.kind = "raise"
             THEN [c |-> [l EXCEPT !.has_value = TRUE], res |-> r, invoked |-> TRUE]
             ELSE [c |-> [l EXCEPT !.value = r.value, !.has_value = TRUE], res |-> r,
                   invoked |-> TRUE]

\* Lazy.__call__(): the same body as value().
lazy_call(l, n) ==
    IF l.has_value THEN [c |-> l, res |-> Return(l.value), invoked |-> FALSE]
    ELSE LET r == call_init(l.init, n + 1)
         IN  IF r.kind = "raise" THEN [c |-> l, res |-> r, invoked |-> TRUE]
             ELSE [c |-> [l EXCEPT !.value = r.value, !.has_value = TRUE], res |-> r,
                   invoked |-> TRUE]

\* unwrap that initializes instead of raising.
lazy_unwrap_forcing(l, n) == lazy_value(l, n)

\* Lazy.unwrap()
lazy_unwrap(l, n) ==
    IF ~l.has_value
    THEN [c |-> l, res |-> ValueError(<<"Called Lazy.unwrap() on an uninitialized value.">>),
          invoked |-> FALSE]
    ELSE [c |-> l, res |-> Return(l.value), invoked |-> FALSE]

\* What the tests write into a Once, and the initializers they hand over.
OnceValues == {IntV(1), IntV(2)}
OnceInits == {Const(1), Const(2), Raising}
LazyInits == {Const(42), NewObject, Raising}

NoDispatch ==
    /\ registry = <<>>
    /\ function = <<>>
    /\ abc_registry = <<>>
    /\ nregs = 0

\* once = Once() and lazy = Lazy(f)
InitOnce ==
    /\ once = once_init
    /\ lazy \in {lazy_init(f) : f \in LazyInits}
    /\ ninit = 0
    /\ last = [op |-> "init"]
    /\ NoDispatch
    /\ NoThreads
    /\ NoEffects
    /\ NoMaybes

\* One call of a method of the Once: r is what the method gives.
OnceStep(op, arg, r) ==
    /\ once' = r.c
    /\ last' = [op |-> op, arg |-> arg, before |-> once, res |-> r.res, invoked |-> r.invoked]
    /\ UNCHANGED <<lazy, ninit, registry, function, abc_registry, nregs, thread_state, effect_state, maybe_state>>

OnceSet(v) == OnceStep("once.set", v, once_set(once, v))
OnceGetOrInit(f) == OnceStep("once.get_or_init", f, once_get_or_init(once, f))
OnceUnwrap == OnceStep("once.unwrap", NoneV, once_unwrap(once))
\* bool(once)
OnceBool ==
    OnceStep("once.bool", NoneV, [c |-> once, res |-> Return(once.has_value), invoked |-> FALSE])

\* One call of a method of the Lazy; the initializer is called at most
\* MaxInits times in one behaviour.
LazyStep(op, r) ==
    /\ r.invoked => ninit < MaxInits
    /\ lazy' = r.c
    /\ ninit' = IF r.invoked THEN ninit + 1 ELSE ninit
    /\ last' = [op |-> op, before |-> lazy, calls_before |-> ninit, res |-> r.res,
                invoked |-> r.invoked]
    /\ UNCHANGED <<once, registry, function, abc_registry, nregs, thread_state, effect_state, maybe_state>>

LazyValue == LazyStep("lazy.value", lazy_value(lazy, ninit))
LazyCall == LazyStep("lazy.call", lazy_call(lazy, ninit))
LazyUnwrap == LazyStep("lazy.unwrap", lazy_unwrap(lazy, ninit))
\* bool(lazy)
LazyBool ==
    LazyStep("lazy.bool", [c |-> lazy, res |-> Return(lazy.has_value), invoked |-> FALSE])

NextOnce ==
    \/ \E v \in OnceValues : OnceSet(v)
    \/ \E f \in OnceInits : OnceGetOrInit(f)
    \/ OnceUnwrap
    \/ OnceBool
    \/ LazyValue
    \/ LazyCall
    \/ LazyUnwrap
    \/ LazyBool

SpecOnce == InitOnce /\ [][NextOnce]_vars

-----------------------------------------------------------------------------
(* The decorators of apfel/effect: once (once.py) and Hook (hook.py) *)

\* NEVER_RUN, the instance of NeverRun the module makes.
NEVER_RUN == [t |-> "inst", cls |-> "NeverRun"]

\* The functions put under @once: the one of test_once, which returns None;
\* one that returns its argument; one that returns NEVER_RUN, which the
\* module exports; one that raises.
OnceFuncs == {"returns_none", "returns_arg", "returns_never_run", "raises"}

\* func(*args, **kwargs)
call_func(func, arg) ==
    CASE func = "returns_none"      -> Return(NoneV)
      [] func = "returns_arg"       -> Return(arg)
      [] func = "returns_never_run" -> Return(NEVER_RUN)
      [] OTHER                      -> [kind |-> "raise", exc |-> "Exception"]

\* once(func): the closure of wrapper.
once_decorate(func) == [func |-> func, once_cache |-> NEVER_RUN]

\* wrapper(*args, **kwargs): the closure after the call, what the call gave
\* back and whether the body ran.
once_wrapper(w, arg) ==
    IF type_of(w.once_cache) = "NeverRun"
    THEN LET r == call_func(w.func, arg)
         IN  IF r.kind = "raise" THEN [w |-> w, res |-> r, ran |-> TRUE]
             ELSE [w |-> [w EXCEPT !.once_cache = r.value], res |-> r, ran |-> TRUE]
    ELSE [w |-> w, res |-> Return(w.once_cache), ran |-> FALSE]

\* The callbacks of the tests and the arguments of the decorated function.
Callbacks == {"foo", "bar"}
HookArgs == {IntV(1), IntV(2)}

\* Hook(name)
hook_init == [list_lazy |-> <<>>, list_eager |-> <<>>]

\* Hook.register_lazy(func) (also Hook.register) and Hook.register_eager(func)
register_lazy(h, func) == [h EXCEPT !.list_lazy = Append(@, func)]
register_eager(h, func) == [h EXCEPT !.list_eager = Append(@, func)]

\* for func in list: func() -- the calls made, in order.
fire_list(l) == [i \in 1..Len(l) |-> [ran |-> "callback", func |-> l[i]]]

Reverse(l) == [i \in 1..Len(l) |-> l[Len(l) + 1 - i]]

\* fire_lazy that walks the list from its end.
fire_lazy_reversed(h) == fire_list(Reverse(h.list_lazy))

\* Hook.fire_lazy() (also Hook.fire) and Hook.fire_eager()
fire_lazy(h) == fire_list(h.list_lazy)
fire_eager(h) == fire_list(h.list_eager)

\* wrapped(*args, **kwargs): the decorated function gives back what it got.
call_wrapped(arg) == [ran |-> "wrapped", arg |-> arg]

\* Hook.__call__ that leaves the eager callbacks to the wrapper.
hook_wrapper_fires_eager(h, arg) ==
    [ran |-> fire_eager(h) \o fire_lazy(h) \o <<call_wrapped(arg)>>, res |-> Return(arg)]

\* Hook.__call__(wrapped): what runs at decoration.
hook_call(h) == [ran |-> fire_eager(h)]

\* wrapper(*args, **kwargs) of Hook.__call__: what runs, and the result.
hook_wrapper(h, arg) ==
    [ran |-> fire_lazy(h) \o <<call_wrapped(arg)>>, res |-> Return(arg)]

\* A function under @once and a Hook without callbacks.
InitEffect ==
    /\ once_fn \in {once_decorate(f) : f \in OnceFuncs}
    /\ nbody = 0
    /\ hook = hook_init
    /\ ndecor = 0
    /\ last = [op |-> "init"]
    /\ NoDispatch
    /\ NoThreads
    /\ once = NoneV /\ lazy = NoneV /\ ninit = 0
    /\ NoMaybes

unchanged_by_effects ==
    UNCHANGED <<registry, function, abc_registry, nregs, thread_state, container_state,
                maybe_state>>

\* A call of the function under @once.
OnceCall(arg) ==
    LET r == once_wrapper(once_fn, arg)
    IN  /\ r.ran => nbody < MaxBody
        /\ once_fn' = r.w
        /\ nbody' = IF r.ran THEN nbody + 1 ELSE nbody
        /\ last' = [op |-> "effect.once", arg |-> arg, before |-> once_fn,
                    runs_before |-> nbody, res |-> r.res, ran |-> r.ran]
        /\ UNCHANGED <<hook, ndecor>>
        /\ unchanged_by_effects

\* @hook.register / @hook.register_lazy
RegisterLazy(func) ==
    /\ Len(hook.list_lazy) < MaxCallbacks
    /\ hook' = register_lazy(hook, func)
    /\ last' = [op |-> "hook.register_lazy", func |-> func, before |-> hook,
                res |-> Return(func), ran |-> <<>>]
    /\ UNCHANGED <<once_fn, nbody, ndecor>>
    /\ unchanged_by_effects

\* @hook.register_eager
RegisterEager(func) ==
    /\ Len(hook.list_eager) < MaxCallbacks
    /\ hook' = register_eager(hook, func)
    /\ last' = [op |-> "hook.register_eager", func |-> func, before |-> hook,
                res |-> Return(func), ran |-> <<>>]
    /\ UNCHANGED <<once_fn, nbody, ndecor>>
    /\ unchanged_by_effects

\* @hook over a function definition
HookDecorate ==
    /\ ndecor < MaxDecor
    /\ ndecor' = ndecor + 1
    /\ last' = [op |-> "hook.decorate", before |-> hook, ran |-> hook_call(hook).ran]
    /\ UNCHANGED <<once_fn, nbody, hook>>
    /\ unchanged_by_effects

\* A call of a function the Hook decorated.
HookWrapperCall(arg) ==
    /\ ndecor > 0
    /\ last' = [op |-> "hook.wrapper", arg |-> arg, before |-> hook,
                ran |-> hook_wrapper(hook, arg).ran, res |-> hook_wrapper(hook, arg).res]
    /\ UNCHANGED <<once_fn, nbody, hook, ndecor>>
    /\ unchanged_by_effects

\* hook.fire()
HookFire ==
    /\ last' = [op |-> "hook.fire", before |-> hook, ran |-> fire_lazy(hook),
                res |-> Return(NoneV)]
    /\ UNCHANGED <<once_fn, nbody, hook, ndecor>>
    /\ unchanged_by_effects

NextEffect ==
    \/ \E arg \in HookArgs : OnceCall(arg)
    \/ \E func \in Callbacks : RegisterLazy(func)
    \/ \E func \in Callbacks : RegisterEager(func)
    \/ HookDecorate
    \/ \E arg \in HookArgs : HookWrapperCall(arg)
    \/ HookFire

SpecEffect == InitEffect /\ [][NextEffect]_vars

-----------------------------------------------------------------------------
(* The optional value Maybe of apfel/container/maybe.py *)

BoolV(b) == [t |-> "inst", cls |-> "bool", v |-> IF b THEN 1 ELSE 0]
is_number(x) == x.t = "inst" /\ x.cls \in {"int", "bool"}

\* x == y and hash(x) for the values put into a Maybe: True == 1 and they
\* hash alike; None and ... are equal to themselves only.
py_eq(x, y) == IF is_number(x) /\ is_number(y) THEN x.v = y.v ELSE x = y
py_hash(x) == IF is_number(x) THEN [number |-> x.v] ELSE [object |-> x.t]

\* Maybe(val) and Maybe(has_value=False): the fields _val and _has_value.
Maybe(val) == [t |-> "Maybe", val |-> val, has_value |-> TRUE]
MaybeNothing == [t |-> "Maybe", val |-> Ellipsis, has_value |-> FALSE]

\* just(val), nothing(), some(val)
just(val) == Maybe(val)
nothing == MaybeNothing
some(val) == IF val # NoneV THEN Maybe(val) ELSE MaybeNothing

NotImplemented == [t |-> "NotImplemented"]

\* Maybe.__eq__(self, other)
maybe_eq(self, other) ==
    IF other.t # "Maybe" THEN NotImplemented
    ELSE BoolV(\/ self.has_value /\ other.has_value /\ py_eq(self.val, other.val)
               \/ ~(self.has_value \/ other.has_value))

\* self == other: NotImplemented from __eq__ (and from the reflected __eq__
\* of None and of False) leaves the comparison of identities, which is False
\* for two objects.
equals(self, other) ==
    LET r == maybe_eq(self, other)
    IN  IF r = NotImplemented THEN FALSE ELSE r.v = 1

\* Maybe.__hash__: hash((id(Maybe), self._has_value, self._val)), a tuple's
\* hash being made of the hashes of its items.
maybe_hash(self) == <<"id(Maybe)", self.has_value, py_hash(self.val)>>

\* The functions handed to the methods, and what a call of one gives.
Mappers == {"succ"}
Binders == {"to_some_succ", "to_nothing"}
Predicates == {"is_one", "never"}
Producers == {"make_two"}
MaybeProducers == {"make_just_two", "make_nothing"}

apply_fn(f, x) ==
    CASE f = "succ"          -> IntV(x.v + 1)
      [] f = "to_some_succ"  -> some(IntV(x.v + 1))
      [] f = "to_nothing"    -> nothing
      [] f = "is_one"        -> x.v = 1
      [] f = "never"         -> FALSE
      [] f = "make_two"      -> IntV(2)
      [] f = "make_just_two" -> just(IntV(2))
      [] OTHER               -> nothing

\* Each method gives the receiver after the call, what the call gave back
\* and which of its function arguments it called.
Gave(m, res, called) == [m |-> m, res |-> res, called |-> called]

\* take that leaves the old value in _val.
maybe_take_keeps_val(self) ==
    IF self.has_value
    THEN Gave([self EXCEPT !.has_value = FALSE], Maybe(self.val), {})
    ELSE Gave(self, MaybeNothing, {})

\* Maybe.take()
maybe_take(self) ==
    IF self.has_value
    THEN Gave([self EXCEPT !.has_value = FALSE, !.val = Ellipsis], Maybe(self.val), {})
    ELSE Gave(self, MaybeNothing, {})

\* take_if that never asks the predicate.
maybe_take_if_always(self, p) == maybe_take(self)

\* Maybe.take_if(p)
maybe_take_if(self, p) ==
    IF ~self.has_value THEN Gave(self, MaybeNothing, {})
    ELSE IF apply_fn(p, self.val)
         THEN Gave([self EXCEPT !.has_value = FALSE, !.val = Ellipsis], Maybe(self.val), {"p"})
         ELSE Gave(self, MaybeNothing, {"p"})

\* Maybe.insert(val)
maybe_insert(self, val) ==
    Gave([self EXCEPT !.val = val, !.has_value = TRUE], val, {})

\* Maybe.replace(val)
maybe_replace(self, val) ==
    IF self.has_value THEN Gave([self EXCEPT !.val = val], Maybe(self.val), {})
    ELSE Gave([self EXCEPT !.val = val, !.has_value = TRUE], MaybeNothing, {})

\* Maybe.get_or_insert(val)
maybe_get_or_insert(self, val) ==
    IF ~self.has_value THEN Gave([self EXCEPT !.val = val, !.has_value = TRUE], val, {})
    ELSE Gave(self, self.val, {})

\* Maybe.get_or_insert_with(d)
maybe_get_or_insert_with(self, d) ==
    IF ~self.has_value
    THEN Gave([self EXCEPT !.val = apply_fn(d, NoneV), !.has_value = TRUE],
              apply_fn(d, NoneV), {"d"})
    ELSE Gave(self, self.val, {})

\* Maybe.map(f)
maybe_map(self, f) ==
    IF self.has_value THEN Gave(self, Maybe(apply_fn(f, self.val)), {"f"})
    ELSE Gave(self, MaybeNothing, {})

\* Maybe.and_then(f) and Maybe.bind(f)
maybe_and_then(self, f) ==
    IF self.has_value THEN Gave(self, apply_fn(f, self.val), {"f"})
    ELSE Gave(self, MaybeNothing, {})
maybe_bind(self, f) ==
    IF self.has_value THEN Gave(self, apply_fn(f, self.val), {"f"})
    ELSE Gave(self, MaybeNothing, {})

\* Maybe.filter(p)
maybe_filter(self, p) ==
    IF ~self.has_value THEN Gave(self, MaybeNothing, {})
    ELSE IF ~apply_fn(p, self.val) THEN Gave(self, MaybeNothing, {"p"})
         ELSE Gave(self, Maybe(self.val), {"p"})

\* Maybe.is_just_and(p)
maybe_is_just_and(self, p) ==
    IF self.has_value THEN Gave(self, BoolV(apply_fn(p, self.val)), {"p"})
    ELSE Gave(self, BoolV(FALSE), {})

\* Maybe.map_or(default, f)
maybe_map_or(self, default, f) ==
    IF self.has_value THEN Gave(self, apply_fn(f, self.val), {"f"})
    ELSE Gave(self, default, {})

\* map_or_else that works out both branches before it chooses.
maybe_map_or_else_eager(self, d, f) ==
    IF self.has_value THEN Gave(self, apply_fn(f, self.val), {"f", "d"})
    ELSE Gave(self, apply_fn(d, NoneV), {"f", "d"})

\* Maybe.map_or_else(d, f)
maybe_map_or_else(self, d, f) ==
    IF self.has_value THEN Gave(self, apply_fn(f, self.val), {"f"})
    ELSE Gave(self, apply_fn(d, NoneV), {"d"})

\* Maybe.or_else(f): f is the producer.
maybe_or_else(self, f) ==
    IF self.has_value THEN Gave(self, Maybe(self.val), {})
    ELSE Gave(self, apply_fn(f, NoneV), {"d"})

\* Maybe.unwrap_or_else(f): f is the producer.
maybe_unwrap_or_else(self, f) ==
    IF self.has_value THEN Gave(self, self.val, {})
    ELSE Gave(self, apply_fn(f, NoneV), {"d"})

\* The values the tests put into a Maybe, and the two variables that hold one.
Inner == {IntV(1), IntV(2), BoolV(TRUE)}
MaybeNames == {"a", "b"}

\* What just, nothing and some construct.
Constructed ==
    {just(v) : v \in Inner} \cup {nothing} \cup {some(v) : v \in Inner \cup {NoneV}}

InitMaybe ==
    /\ maybe \in [MaybeNames -> Constructed]
    /\ last = [op |-> "init"]
    /\ NoDispatch
    /\ NoThreads
    /\ once = NoneV /\ lazy = NoneV /\ ninit = 0
    /\ NoEffects

\* One call of a method on the Maybe held by x: r is what the method gives.
MaybeStep(op, x, args, r) ==
    /\ maybe' = [maybe EXCEPT ![x] = r.m]
    /\ last' = [op |-> op, name |-> x, args |-> args, before |-> maybe[x], res |-> r.res,
                called |-> r.called]
    /\ UNCHANGED <<registry, function, abc_registry, nregs, thread_state, container_state,
                   effect_state>>

Take(x) == MaybeStep("take", x, <<>>, maybe_take(maybe[x]))
TakeIf(x, p) == MaybeStep("take_if", x, [p |-> p], maybe_take_if(maybe[x], p))
Insert(x, v) == MaybeStep("insert", x, [val |-> v], maybe_insert(maybe[x], v))
Replace(x, v) == MaybeStep("replace", x, [val |-> v], maybe_replace(maybe[x], v))
GetOrInsert(x, v) == MaybeStep("get_or_insert", x, [val |-> v], maybe_get_or_insert(maybe[x], v))
GetOrInsertWith(x, d) ==
    MaybeStep("get_or_insert_with", x, [d |-> d], maybe_get_or_insert_with(maybe[x], d))
Map(x, f) == MaybeStep("map", x, [f |-> f], maybe_map(maybe[x], f))
AndThen(x, f) == MaybeStep("and_then", x, [f |-> f], maybe_and_then(maybe[x], f))
Bind(x, f) == MaybeStep("bind", x, [f |-> f], maybe_bind(maybe[x], f))
Filter(x, p) == MaybeStep("filter", x, [p |-> p], maybe_filter(maybe[x], p))
IsJustAnd(x, p) == MaybeStep("is_just_and", x, [p |-> p], maybe_is_just_and(maybe[x], p))
MapOr(x, v, f) == MaybeStep("map_or", x, [default |-> v, f |-> f], maybe_map_or(maybe[x], v, f))
MapOrElse(x, d, f) ==
    MaybeStep("map_or_else", x, [d |-> d, f |-> f], maybe_map_or_else(maybe[x], d, f))
OrElse(x, d) == MaybeStep("or_else", x, [d |-> d], maybe_or_else(maybe[x], d))
UnwrapOrElse(x, d) ==
    MaybeStep("unwrap_or_else", x, [d |-> d], maybe_unwrap_or_else(maybe[x], d))
\* x = just(v), x = nothing(), x = some(v): the name holds a new object.
New(x, m) == MaybeStep("new", x, <<>>, Gave(m, m, {}))
\* maybe[x] == other, other being a Maybe, None or False.
Eq(x, other) ==
    MaybeStep("eq", x, [other |-> other],
              Gave(maybe[x], BoolV(equals(maybe[x], other)), {}))

NextMaybe ==
    \E x \in MaybeNames :
        \/ Take(x)
        \/ \E p \in Predicates : TakeIf(x, p)
        \/ \E v \in Inner : Insert(x, v)
        \/ \E v \in Inner : Replace(x, v)
        \/ \E v \in Inner : GetOrInsert(x, v)
        \/ \E d \in Producers : GetOrInsertWith(x, d)
        \/ \E f \in Mappers : Map(x, f)
        \/ \E f \in Binders : AndThen(x, f)
        \/ \E f \in Binders : Bind(x, f)
        \/ \E p \in Predicates : Filter(x, p)
        \/ \E p \in Predicates : IsJustAnd(x, p)
        \/ \E v \in Inner, f \in Mappers : MapOr(x, v, f)
        \/ \E d \in Producers, f \in Mappers : MapOrElse(x, d, f)
        \/ \E d \in MaybeProducers : OrElse(x, d)
        \/ \E d \in Producers : UnwrapOrElse(x, d)
        \/ \E m \in Constructed : New(x, m)
        \/ \E other \in {maybe[y] : y \in MaybeNames} \cup {nothing, NoneV, BoolV(FALSE)} :
               Eq(x, other)

SpecMaybe == InitMaybe /\ [][NextMaybe]_vars

-----------------------------------------------------------------------------
(* Properties *)

\* The type a resolution starts from: for a class or static slot the first
\* argument itself when it is a class, else the type of the first argument.
resolved_type(l) ==
    IF l.op \in {"getitem", "new"} /\ is_type(l.arg) THEN l.arg.name ELSE type_of(l.arg)

\* Some class of ty's ancestry is a key of the slot's registry.
has_registration(s, ty) == \E c \in Range(mro(ty)) : c \in DOMAIN registry[s]

\* ty inherits from the slot's interface and a class of its own ancestry,
\* below the interface, defines a method of the slot's name.
has_override(s, ty) ==
    /\ enclosing_class(s) # NoneV
    /\ enclosing_class(s).name \in Range(mro(ty))
    /\ \E c \in Range(mro(ty)) : c # enclosing_class(s).name /\ s \in class_attrs(c)

\* C1: a receiver-dispatch call (an abstract method called through the
\* interface, or a @dispatch function) on an instance of a type that has no
\* registration on itself or an ancestor and does not inherit from the
\* interface returns what the slot's default body returns for the same
\* arguments, whenever a default body exists.
C1_DefaultFallback ==
    (/\ last.op = "call"
     /\ function[last.slot].fn # "unimplemented"
     /\ ~has_registration(last.slot, type_of(last.arg))
     /\ "ITest" \notin Range(mro(type_of(last.arg))))
    => last.res = body(function[last.slot], <<last.arg>> \o last.pos, last.kw)

\* C2: whenever the registry decides a resolution, the implementation chosen
\* is the one registered for the first class of the receiver type's MRO that
\* has a registration (no nearer ancestor is registered); and the registry
\* decides whenever some ancestor is registered and no inheritance override
\* applies.
C2_NearestAncestorWins ==
    last.op \in {"call", "getitem"} =>
        LET s == last.slot
            m == mro(resolved_type(last))
            d == last.decided
            registered == {i \in 1..Len(m) : m[i] \in DOMAIN registry[s]}
        IN  /\ d.via = "registry" =>
                    \E i \in registered :
                        /\ d.key = m[i]
                        /\ d.impl = registry[s][m[i]]
                        /\ \A j \in registered : i <= j
            /\ (registered # {} /\ ~has_override(s, resolved_type(last)))
                    => d.via = "registry"

\* C2 witness: a MyFloat receiver while float and object are both registered
\* with different implementations and MyFloat is not: float's is chosen.
C2_Witness ==
    /\ last.op = "call"
    /\ last.slot = "normal_method"
    /\ last.arg = Inst("MyFloat")
    /\ DOMAIN registry["normal_method"] = {"float", "object"}
    /\ registry["normal_method"]["float"] # registry["normal_method"]["object"]
    /\ last.decided.via = "registry"
    /\ last.decided.key = "float"
    /\ last.res.by = registry["normal_method"]["float"]

\* C3: a receiver-dispatch call of an interface slot on an instance of a type
\* that inherits from the interface, defines its own method of that name and
\* also has a registration (on itself or an ancestor) returns the override's
\* result, and not the result of any registered implementation.
C3_OverrideBeatsRegistration ==
    (/\ last.op = "call"
     /\ has_override(last.slot, type_of(last.arg))
     /\ has_registration(last.slot, type_of(last.arg)))
    => LET m == mro(type_of(last.arg))
           own == m[Min({i \in 1..Len(m) : last.slot \in class_attrs(m[i])})]
       IN  /\ last.res = body(class_attr(own, last.slot), <<last.arg>> \o last.pos, last.kw)
           /\ \A c \in DOMAIN registry[last.slot] : last.res.by # registry[last.slot][c]

\* C3 witness: A overrides normal_method and is registered for it as well.
C3_Witness ==
    /\ last.op = "call"
    /\ last.slot = "normal_method"
    /\ last.arg = Inst("A")
    /\ "A" \in DOMAIN registry["normal_method"]
    /\ last.res.kind = "return"
    /\ last.res.by = Fn("A", "normal_method")

\* C4: a registry.add_impl call with one class as implementor never raises,
\* also when the class is registered already; afterwards the slot's registry
\* maps the class to the implementation just given (the earlier one is gone),
\* its keys are the earlier keys and the class, and a resolution that the
\* registry decides returns the entry the registry holds now.
C4_LastWriteWins ==
    /\ (last.op = "registry.add_impl" /\ Len(last.args) = 1 /\ is_type(last.args[1])) =>
            LET s == last.slot
                ty == last.args[1].name
            IN  /\ last.res = Ok
                /\ DOMAIN registry[s] = (DOMAIN last.before[s]) \cup {ty}
                /\ registry[s][ty] = stored(s, last.func)
    /\ (last.op \in {"call", "getitem"} /\ last.decided.via = "registry") =>
            last.decided.impl = registry[last.slot][last.decided.key]

\* C4 witness: a second registration for a class that held another
\* implementation has replaced it.
C4_Witness ==
    /\ last.op = "registry.add_impl"
    /\ last.res = Ok
    /\ last.args[1].name \in DOMAIN last.before[last.slot]
    /\ last.before[last.slot][last.args[1].name] # stored(last.slot, last.func)
    /\ registry[last.slot][last.args[1].name] = stored(last.slot, last.func)

\* C5: a bulk registration (@impl class form, or add_impl with a mapping and
\* one class as implementor) that names an operation which is no declared
\* slot of the interface raises an error naming that operation and leaves
\* every registry as it was before the call.
C5_BulkAllOrNothing ==
    (/\ last.op \in {"impl", "add_impl"}
     /\ last.op = "add_impl" => (Len(last.args) = 1 /\ is_type(last.args[1]))
     /\ \E i \in 1..Len(last.names) : last.names[i] \notin dispatch_methods(last.definition))
    => /\ last.res.kind = "raise"
       /\ \E i \in 1..Len(last.names) :
                /\ last.names[i] \notin dispatch_methods(last.definition)
                /\ last.names[i] \in Range(last.res.msg)
       /\ registry = last.before

\* C6: Trait.class_method[S] for a class S whose nearest registered
\* ancestor is another class R calls R's implementation with S itself as
\* cls, followed by the arguments of the call.
C6_ClassMethodBoundToSubclass ==
    (/\ last.op = "getitem"
     /\ flavor(last.slot) = "class"
     /\ is_type(last.arg)
     /\ last.decided.via = "registry"
     /\ last.decided.key # last.arg.name)
    => /\ last.res.by = last.decided.impl.f
       /\ last.res.pos = <<last.arg>> \o last.pos

\* C7: a static-method slot called through the interface with a type or an
\* instance as first argument, for a type that has an override or a
\* registration, calls the implementation with the remaining positional and
\* keyword arguments only: the first argument is not among them.
C7_StaticArgumentConsumed ==
    (/\ last.op = "new"
     /\ flavor(last.slot) = "static"
     /\ \/ has_override(last.slot, resolved_type(last))
        \/ has_registration(last.slot, resolved_type(last)))
    => /\ last.res.pos = last.pos
       /\ last.res.kw = last.kw
       /\ last.arg \notin Range(last.res.pos)

\* C8: a class-method slot called through the interface with a type T or an
\* instance of T as first argument, T having an override or a registration,
\* runs T's implementation and not the blanket body, and passes it only the
\* remaining arguments after cls.
C8_TypeOrInstance ==
    (/\ last.op = "new"
     /\ flavor(last.slot) = "class"
     /\ \/ has_override(last.slot, resolved_type(last))
        \/ has_registration(last.slot, resolved_type(last)))
    => /\ last.res.by # function[last.slot].f
       /\ SubSeq(last.res.pos, 2, Len(last.res.pos)) = last.pos
       /\ last.res.kw = last.kw

\* C9: a receiver-dispatch call that resolves to an implementation calls it
\* with the original receiver first, then the remaining positional arguments,
\* and the same keyword arguments; what the implementation returns or raises
\* is what the call returns or raises.
C9_ReceiverForwarding ==
    (last.op = "call" /\ last.decided.via # "raise") =>
        /\ last.res.by = last.decided.impl
        /\ last.res.pos[1] = last.arg
        /\ SubSeq(last.res.pos, 2, Len(last.res.pos)) = last.pos
        /\ last.res.kw = last.kw
        /\ last.res = body(last.decided.impl, last.res.pos, last.res.kw)

\* C9 witness: the implementation registered for float raises when called
\* for a MyFloat receiver, and the caller sees that exception.
C9_Witness ==
    /\ last.op = "call"
    /\ last.arg = Inst("MyFloat")
    /\ last.decided.via = "registry"
    /\ last.decided.key = "float"
    /\ last.res.kind = "raise"
    /\ last.res.exc = "Exception"
    /\ last.res.pos = <<Inst("MyFloat"), One>>

\* A resolution of a slot made without a default that finds no override and
\* no registration on the type or an ancestor.
nothing_to_call(l) ==
    /\ l.op \in {"call", "getitem"}
    /\ name_of(function[l.slot]) = "unimplemented"
    /\ ~has_override(l.slot, resolved_type(l))
    /\ ~has_registration(l.slot, resolved_type(l))

-----------------------------------------------------------------------------
(* Properties of the registration API and of get_impl *)

\* The implementor arguments of a registration call are not one single type.
bad_implementor(args) == Len(args) # 1 \/ ~is_type(args[1])

\* C11: a registration call (registry.add_impl, add_impl with a mapping, or
\* @impl) whose implementor is not a type, or that gives no or several
\* implementor arguments, or whose @impl arguments are no classes, raises an
\* error at the call and leaves every registry as it was.
C11_InvalidTypeKey ==
    /\ (last.op \in {"registry.add_impl", "add_impl"} /\ bad_implementor(last.args)) =>
            /\ last.res.kind = "raise"
            /\ registry = last.before
    /\ last.op = "impl.invalid" =>
            /\ last.res.kind = "raise"
            /\ registry = last.before

\* C11 witness: registry.add_impl handed an instance as implementor while
\* the slot already holds an entry: ValueError, and the entry is still there.
C11_Witness ==
    /\ last.op = "registry.add_impl"
    /\ last.args = <<Inst("float")>>
    /\ last.res.kind = "raise"
    /\ last.res.exc = "ValueError"
    /\ DOMAIN registry[last.slot] # {}
    /\ registry = last.before

\* callable(v), looking through the classmethod / staticmethod wrapper that
\* the class-method and static-method registries put around what they store.
callable(v) ==
    CASE v.t \in {"classmethod", "staticmethod"} -> v.f.t \in {"function", "staticmethod"}
      [] OTHER -> v.t \in {"function", "method", "dyn"}

\* C12: a registry.add_impl call with one class as implementor and a
\* non-callable value as implementation raises at the call and stores
\* nothing; no registry ever holds a non-callable value; and no dispatch call
\* fails because the implementation it resolved to cannot be called.
C12_InvalidImplementation ==
    /\ (/\ last.op = "registry.add_impl"
        /\ ~bad_implementor(last.args)
        /\ ~callable(last.func))
            => (last.res.kind = "raise" /\ registry = last.before)
    /\ \A s \in Slots : \A c \in DOMAIN registry[s] : callable(registry[s][c])
    /\ last.op = "call" =>
            ~(last.res.kind = "raise" /\ last.res.exc = "TypeError")

-----------------------------------------------------------------------------
(* Properties of the interface hierarchy Functor - Applicative - Monad *)

\* The last operation registered a virtual subclass and returned normally.
registered_ok(l) == l.op \in {"impl", "register"} /\ l.res = Ok

\* C13 as stated: a successful @impl of T on I makes T and its instances
\* recognized as I; and a built-in type comes to be recognized as an interface
\* only by a successful registration on that very interface.
C13_RecognizedOnlyWhereRegistered ==
    /\ \A c \in MonadBases, i \in MonadInterfaces : ~issubclass(c, i)
    /\ [](registered_ok(last) =>
            /\ issubclass(last.impl_for, last.definition)
            /\ isinstance(Inst(last.impl_for), last.definition))
    /\ [][\A c \in MonadBases, i \in MonadInterfaces :
            (~issubclass(c, i) /\ issubclass(c, i)') =>
                /\ registered_ok(last')
                /\ last'.impl_for \in Range(mro(c))
                /\ last'.definition = i]_vars

\* C13 as amended: a successful @impl of T on I makes T and its instances
\* recognized as I; and a built-in type comes to be recognized as an interface
\* only by a successful registration of the type (or an ancestor) on that
\* interface or on an interface derived from it.  add_impl and dispatch calls
\* never change what is recognized.
C13_VirtualSubclass ==
    /\ \A c \in MonadBases, i \in MonadInterfaces : ~issubclass(c, i)
    /\ [](registered_ok(last) =>
            /\ issubclass(last.impl_for, last.definition)
            /\ isinstance(Inst(last.impl_for), last.definition))
    /\ [][\A c \in MonadBases, i \in MonadInterfaces :
            (~issubclass(c, i) /\ issubclass(c, i)') =>
                /\ registered_ok(last')
                /\ last'.impl_for \in Range(mro(c))
                /\ i \in Range(mro(last'.definition))]_vars

\* C13 witness: dict was registered on Functor and list, just now, on Monad
\* by @impl: list is a Monad and a Functor, dict is a Functor and neither an
\* Applicative nor a Monad.
C13_Witness ==
    /\ last.op = "impl"
    /\ last.definition = "Monad"
    /\ last.impl_for = "list"
    /\ last.res = Ok
    /\ abc_registry = [i \in MonadInterfaces |->
                        CASE i = "Functor" -> {"dict"} [] i = "Monad" -> {"list"} [] OTHER -> {}]
    /\ issubclass("list", "Monad")
    /\ issubclass("list", "Functor")
    /\ issubclass("dict", "Functor")
    /\ ~issubclass("dict", "Applicative")
    /\ ~issubclass("dict", "Monad")

-----------------------------------------------------------------------------
(* Properties of the registries over time *)

\* C14: in every step the keys of every slot's registry are kept (a
\* registration may add a key or replace a value, nothing removes a key), and
\* a step that is a dispatch call leaves every registry as it is.
C14_MonotonicRegistry ==
    [][/\ \A s \in Slots : DOMAIN registry[s] \subseteq DOMAIN registry'[s]
       /\ last'.op \in {"call", "new", "getitem"} => registry' = registry]_vars

\* C14 witness: a registration has added a second class to a slot's registry
\* and the class registered before is still there with its implementation.
C14_Witness ==
    /\ last.op \in {"registry.add_impl", "impl", "add_impl"}
    /\ \E s \in Slots :
            /\ DOMAIN last.before[s] # {}
            /\ DOMAIN last.before[s] \subseteq DOMAIN registry[s]
            /\ DOMAIN last.before[s] # DOMAIN registry[s]
            /\ \A c \in DOMAIN last.before[s] : registry[s][c] = last.before[s][c]

-----------------------------------------------------------------------------
(* Properties of racing registrations *)

\* The implementations whose add_impl call has begun / has returned.
race_written == {loc[w].func : w \in {x \in Writers : pc[x] # "idle"}}
race_stored == {loc[w].func : w \in {x \in Writers : pc[x] = "done"}}

\* The registry holds at most the one key, no other slot is touched, the
\* entry is the earlier value or a value some finished add_impl wrote, and
\* once an add_impl has returned it is a value some finished add_impl wrote.
race_registry_intact ==
    /\ \A s \in Slots \ {RaceSlot} : registry[s] = EmptyDict
    /\ DOMAIN registry[RaceSlot] \subseteq {RaceKey}
    /\ RaceKey \in DOMAIN registry[RaceSlot] =>
            registry[RaceSlot][RaceKey] \in {RaceEarlier} \cup race_stored
    /\ race_stored # {} =>
            /\ RaceKey \in DOMAIN registry[RaceSlot]
            /\ registry[RaceSlot][RaceKey] \in race_stored
    /\ \A w \in Writers : pc[w] = "done" => loc[w].res = Ok

\* Every finished call ran the default body, the earlier implementation or
\* an implementation handed to an add_impl that had begun.
race_resolution_outcome ==
    \A t \in Resolvers : pc[t] = "done" =>
        /\ "by" \in DOMAIN loc[t].res
        /\ loc[t].res.by \in {function[RaceSlot], RaceEarlier} \cup race_written

\* C15: while add_impl calls for the same slot and class and calls of the
\* slot interleave in any order, the registry is never corrupted, after the
\* adds it holds one entry for the class, written by one of them, and every
\* call ran the default, the earlier implementation or a written one.
C15_RacingRegistrations == race_registry_intact /\ race_resolution_outcome

-----------------------------------------------------------------------------
(* Imperative against declarative registration *)

\* A stored implementation without the place its function was defined in:
\* the wrappers and the function's name.
RECURSIVE method_shape(_)
method_shape(v) ==
    IF v.t \in {"classmethod", "staticmethod"} THEN <<v.t, method_shape(v.f)>>
    ELSE IF v.t = "function" THEN <<v.fn>>
    ELSE <<v.t>>

\* C16: when add_impl(Trait, {name: f, ...}, Class) has returned, the state
\* is the one that @impl(Trait) class _(Class) with the same methods leads
\* to from the same start: the declarative form succeeds as well, every slot
\* has the same classes registered with implementations of the same kind,
\* and the same classes are recognized as satisfying Trait.
C16_ImperativeDeclarativeEquivalent ==
    (last.op = "add_impl" /\ ~bad_implementor(last.args) /\ last.res = Ok) =>
        LET c == last.args[1].name
            r == impl_loop(last.before, last.definition, c, class_items(last.names))
            a == abc_register(last.definition, c)
        IN  /\ r.res = Ok
            /\ a.res = Ok
            /\ \A s \in DOMAIN registry :
                    /\ DOMAIN registry[s] = DOMAIN r.reg[s]
                    /\ \A k \in DOMAIN registry[s] :
                            method_shape(registry[s][k]) = method_shape(r.reg[s][k])
            /\ abc_registry = a.abc
            /\ issubclass(c, last.definition)

-----------------------------------------------------------------------------
(* get_impl *)

\* C17: get_impl with one class T as implementor returns the implementation
\* the slot's registry holds for T, and raises KeyError when it holds none.
C17_GetImplLookup ==
    (last.op = "get_impl" /\ ~bad_implementor(last.args)) =>
        LET s == last.slot
            ty == last.args[1].name
        IN  IF ty \in DOMAIN registry[s]
            THEN last.res = [kind |-> "return", value |-> registry[s][ty]]
            ELSE last.res.kind = "raise" /\ last.res.exc = "KeyError"

\* C18: a Once holds the value of its first write for ever. set(v) on an
\* unset Once stores v, on a set one it does nothing and says nothing;
\* get_or_init(f) on an unset Once calls f, stores and returns its value
\* (nothing is stored when f raises), on a set one it returns the stored
\* value without calling f; bool(once) is False before the first write and
\* True from then on.
C18_OnceWriteOnce ==
    /\ ~once.has_value
    /\ [][once.has_value => once' = once]_vars
    /\ [](last.op = "once.set" =>
            /\ last.res = Return(NoneV)
            /\ once = IF last.before.has_value THEN last.before
                      ELSE [value |-> last.arg, has_value |-> TRUE])
    /\ [](last.op = "once.get_or_init" =>
            IF last.before.has_value
            THEN /\ ~last.invoked
                 /\ once = last.before
                 /\ last.res = Return(once.value)
            ELSE /\ last.invoked
                 /\ IF last.arg.kind = "raises"
                    THEN last.res.kind = "raise" /\ once = last.before
                    ELSE /\ last.res = Return(last.arg.value)
                         /\ once = [value |-> last.arg.value, has_value |-> TRUE])
    /\ [](last.op = "once.bool" => last.res = Return(once.has_value))
    /\ [](last.op = "once.bool" =>
            /\ last.before = once
            /\ once.has_value <=> once.value \in OnceValues)

\* A second set, with another value than the one held, has been made.
C18_Witness ==
    /\ last.op = "once.set"
    /\ last.before.has_value
    /\ last.arg # once.value
    /\ once.value \in OnceValues

Retrievals == {"lazy.value", "lazy.call"}
returns_normally(f) == f.kind # "raises"

\* C19: a Lazy whose initializer returns normally calls it on the first
\* retrieval (value() or __call__()) and never again: the initializer has
\* been called once exactly when a value is cached, every retrieval returns
\* the cached object, and that object never changes.
C19_LazyInitializesOnce ==
    /\ [](returns_normally(lazy.init) =>
            /\ ninit = IF lazy.has_value THEN 1 ELSE 0
            /\ last.op \in Retrievals =>
                   /\ lazy.has_value
                   /\ last.res = Return(lazy.value)
                   /\ last.invoked <=> ~last.before.has_value
                   /\ last.before.has_value => lazy = last.before)
    /\ [][lazy.has_value => lazy' = lazy /\ ninit' = ninit]_vars

\* A retrieval has found the object of an earlier retrieval cached, where
\* the initializer makes a new object on each call.
C19_Witness ==
    /\ lazy.init = NewObject
    /\ last.op \in Retrievals
    /\ last.before.has_value
    /\ ~last.invoked
    /\ last.res = Return([t |-> "object", id |-> 1])
    /\ ninit = 1

\* C20: unwrap() never initializes. On a Lazy nothing has been retrieved from
\* it raises ValueError, calls no initializer and leaves bool(lazy) False;
\* once a retrieval has returned, bool(lazy) is True and unwrap() returns
\* the cached value.
C20_LazyUnwrapDoesNotForce ==
    /\ ~lazy.has_value
    /\ [][lazy'.has_value # lazy.has_value =>
              last'.op \in Retrievals /\ last'.res.kind = "return"]_vars
    /\ [](last.op \in Retrievals /\ last.res.kind = "return" => lazy.has_value)
    /\ [](last.op = "lazy.unwrap" =>
            /\ ~last.invoked
            /\ ninit = last.calls_before
            /\ lazy = last.before
            /\ IF lazy.has_value
               THEN last.res = Return(lazy.value)
               ELSE last.res.kind = "raise" /\ last.res.exc = "ValueError")
    /\ [](last.op = "lazy.bool" => last.res = Return(lazy.has_value) /\ lazy = last.before)

\* unwrap() has raised on a Lazy whose initializer would have returned, and
\* the Lazy is still uninitialized.
C20_Witness ==
    /\ last.op = "lazy.unwrap"
    /\ last.res.kind = "raise"
    /\ returns_normally(lazy.init)
    /\ ~lazy.has_value
    /\ ninit = 0

C22_HookLazyOrdering ==
    last.op = "hook.wrapper" =>
        /\ Len(last.ran) = Len(hook.list_lazy) + 1
        /\ \A i \in 1..Len(hook.list_lazy) :
               last.ran[i] = [ran |-> "callback", func |-> hook.list_lazy[i]]
        /\ last.ran[Len(last.ran)] = [ran |-> "wrapped", arg |-> last.arg]
        /\ last.res = Return(last.arg)
        /\ hook = last.before

\* A decorated function has been called with two different lazy callbacks
\* registered.
C22_Witness ==
    /\ last.op = "hook.wrapper"
    /\ Len(hook.list_lazy) = 2
    /\ hook.list_lazy[1] # hook.list_lazy[2]
    /\ Len(last.ran) = 3

\* C23: the eager callbacks run, once each and in the order of registration,
\* each time the Hook decorates a function, and only then: a call of a
\* decorated function and fire() run none of them, and fire() runs the lazy
\* callbacks and nothing else.
C23_HookEagerTiming ==
    /\ last.op = "hook.decorate" =>
           /\ Len(last.ran) = Len(hook.list_eager)
           /\ \A i \in 1..Len(hook.list_eager) :
                  last.ran[i] = [ran |-> "callback", func |-> hook.list_eager[i]]
    /\ last.op = "hook.wrapper" =>
           Len(last.ran) = Len(hook.list_lazy) + 1
    /\ last.op = "hook.fire" =>
           /\ Len(last.ran) = Len(hook.list_lazy)
           /\ \A i \in 1..Len(hook.list_lazy) :
                  last.ran[i] = [ran |-> "callback", func |-> hook.list_lazy[i]]
    /\ last.op \in {"hook.register_lazy", "hook.register_eager"} => last.ran = <<>>

\* A function has been decorated for the second time with two different
\* eager callbacks registered, and both ran.
C23_Witness ==
    /\ last.op = "hook.decorate"
    /\ ndecor = 2
    /\ Len(hook.list_eager) = 2
    /\ hook.list_eager[1] # hook.list_eager[2]
    /\ Len(hook.list_lazy) > 0
    /\ Len(last.ran) = 2

\* C24: take() on a Just leaves the receiver Nothing and gives a new Just
\* with the value it held; on a Nothing it gives Nothing and the receiver
\* stays Nothing. take_if(p) does as take() when the receiver is a Just
\* whose value satisfies p, and otherwise gives Nothing and leaves the
\* receiver as it was.
C24_TakeMovesOut ==
    /\ last.op = "take" =>
           /\ ~maybe[last.name].has_value
           /\ equals(maybe[last.name], nothing)
           /\ last.res = IF last.before.has_value THEN just(last.before.val) ELSE nothing
    /\ last.op = "take_if" =>
           IF last.before.has_value /\ apply_fn(last.args.p, last.before.val)
           THEN /\ ~maybe[last.name].has_value
                /\ equals(maybe[last.name], nothing)
                /\ last.res = just(last.before.val)
           ELSE /\ maybe[last.name] = last.before
                /\ last.res = nothing

\* take_if has left a Just in place whose value fails the predicate.
C24_Witness ==
    /\ last.op = "take_if"
    /\ last.before.has_value
    /\ ~apply_fn(last.args.p, last.before.val)
    /\ maybe[last.name].has_value
    /\ last.res = nothing

\* The Maybe objects at hand: those held, the one the last call gave back,
\* and new ones from just and nothing.
maybes_at_hand ==
    {maybe[x] : x \in MaybeNames} \cup Constructed
        \cup (IF last.op # "init" /\ last.res.t = "Maybe" THEN {last.res} ELSE {})

\* C25: two Maybe values are equal exactly when both are Nothing or both are
\* Just with equal values, a Maybe is equal neither to None nor to False,
\* and equal Maybe values have equal hashes, a Nothing left by take()
\* included.
C25_EqualityAndHashAgree ==
    /\ \A m1, m2 \in maybes_at_hand :
           /\ equals(m1, m2) <=>
                  \/ ~m1.has_value /\ ~m2.has_value
                  \/ m1.has_value /\ m2.has_value /\ py_eq(m1.val, m2.val)
           /\ equals(m1, m2) => maybe_hash(m1) = maybe_hash(m2)
    /\ \A m \in maybes_at_hand : ~equals(m, NoneV) /\ ~equals(m, BoolV(FALSE))
    /\ last.op = "eq" =>
           last.res = BoolV(/\ last.args.other.t = "Maybe"
                            /\ last.before.has_value = last.args.other.has_value
                            /\ last.before.has_value =>
                                   py_eq(last.before.val, last.args.other.val))

\* take() has emptied a Just, and the other name holds a Just of True while
\* a Just of 1 is at hand: equal values of different types.
C25_Witness ==
    /\ last.op = "take"
    /\ last.before.has_value
    /\ ~maybe[last.name].has_value
    /\ \E x \in MaybeNames : maybe[x] = just(BoolV(TRUE))

\* C26: on a Nothing, map, and_then, bind, filter, is_just_and, map_or and
\* map_or_else call neither their function nor their predicate; on a Just,
\* or_else, unwrap_or_else, get_or_insert_with and map_or_else do not call
\* their producer.
C26_UnusedBranchNotCalled ==
    /\ (/\ last.op \in {"map", "and_then", "bind", "filter", "is_just_and", "map_or",
                         "map_or_else"}
        /\ ~last.before.has_value)
           => last.called \cap {"f", "p"} = {}
    /\ (/\ last.op \in {"or_else", "unwrap_or_else", "get_or_insert_with", "map_or_else"}
        /\ last.before.has_value)
           => "d" \notin last.called

\* map_or_else on a Nothing has called its producer only.
C26_Witness ==
    /\ last.op = "map_or_else"
    /\ ~last.before.has_value
    /\ last.called = {"d"}
    /\ last.res = IntV(2)

\* C27: a call of a receiver-dispatch slot of an interface on an instance of
\* a class T that does not inherit from the interface, with an
\* implementation registered for T, runs that implementation, also when T
\* has an attribute of the slot's name; an attribute of the class is chosen
\* only for classes that inherit from the interface.
C27_RegisteredResolveThroughRegistry ==
    (last.op = "call" /\ enclosing_class(last.slot) # NoneV) =>
        LET T == type_of(last.arg)
            inherits == enclosing_class(last.slot).name \in Range(mro(T))
        IN  /\ (~inherits /\ T \in DOMAIN registry[last.slot]) =>
                   /\ last.decided.via = "registry"
                   /\ last.decided.impl = registry[last.slot][T]
            /\ last.decided.via = "override" => inherits

\* C28: every slot starts with an empty registry, and a registration of f
\* for T on a slot's registry that succeeds sets that registry's entry for T
\* and changes nothing else: not the other entries of that registry, not the
\* registry of any other slot, of the interface or not, not the classes the
\* interface recognizes, and no slot's default body.
C28_RegistrationFrame ==
    /\ \A s \in Slots : registry[s] = EmptyDict
    /\ [](last.op = "registry.add_impl" /\ last.res = Ok =>
            LET s == last.slot
                ty == last.args[1].name
            IN  /\ registry[s][ty] = stored(s, last.func)
                /\ \A s2 \in Slots :
                       /\ DOMAIN registry[s2] =
                              DOMAIN last.before[s2] \cup (IF s2 = s THEN {ty} ELSE {})
                       /\ \A c \in DOMAIN last.before[s2] :
                              (s2 # s \/ c # ty) => registry[s2][c] = last.before[s2][c])
    /\ [][/\ function' = function
          /\ last'.op = "registry.add_impl" => abc_registry' = abc_registry]_vars

\* A registration on normal_method for a class, with another class already
\* registered there and the registries of the other interface slots filled.
C28_Witness ==
    /\ last.op = "registry.add_impl"
    /\ last.res = Ok
    /\ last.slot = "normal_method"
    /\ \E c \in DOMAIN last.before["normal_method"] : c # last.args[1].name
    /\ last.before["class_method"] # EmptyDict
    /\ last.before["static_method"] # EmptyDict
    /\ registry["f"] = EmptyDict

\* The slots an interface has from the interfaces it derives from.
inherited_slots(d) ==
    {n \in MonadSlots \cup Slots :
        /\ enclosing_class(n) # NoneV
        /\ enclosing_class(n).name # d
        /\ enclosing_class(n).name \in Range(mro(d))}

\* C29: @impl(I) accepts an implementation class exactly when each of its
\* methods is named as an operation declared abstract in the class body of
\* I itself; a class with a method named as an operation I inherits from an
\* interface it derives from (map or pure under Monad) gets ValueError.
C29_OwnSlotsOnly ==
    last.op = "impl" =>
        LET names == Range(last.names)
        IN  /\ last.res.kind = "return" <=> names \subseteq dispatch_methods(last.definition)
            /\ names \cap inherited_slots(last.definition) # {} =>
                   last.res.kind = "raise" /\ last.res.exc = "ValueError"

\* @impl(Monad) with bind and pure has been refused for pure, which Monad
\* has from Applicative.
C29_Witness ==
    /\ last.op = "impl"
    /\ last.definition = "Monad"
    /\ last.names = <<"bind", "pure">>
    /\ "pure" \in inherited_slots("Monad")
    /\ last.res.kind = "raise"
    /\ last.res.exc = "ValueError"
    /\ last.res.msg[1] = "pure"

init_error == [kind |-> "raise", exc |-> "Exception"]

\* C30: when the initializer given to Once.get_or_init on an unset Once, or
\* the one a Lazy holds, raises, the caller gets that exception and the
\* container is as before and unpopulated: bool gives False, unwrap() raises
\* ValueError, and the next retrieval calls the initializer again.
C30_FailedInitLeavesUnset ==
    /\ (last.op = "once.get_or_init" /\ ~last.before.has_value) =>
           /\ last.invoked
           /\ last.arg = Raising =>
                  last.res = init_error /\ once = last.before /\ ~once.has_value
    /\ (last.op \in Retrievals /\ lazy.init = Raising) =>
           /\ last.invoked
           /\ ninit = last.calls_before + 1
           /\ last.res = init_error
           /\ lazy = last.before
           /\ ~lazy.has_value
    /\ (last.op = "once.bool" /\ ~once.has_value) => last.res = Return(FALSE)
    /\ (last.op = "once.unwrap" /\ ~once.has_value) =>
           last.res.kind = "raise" /\ last.res.exc = "ValueError"
    /\ (last.op = "lazy.bool" /\ lazy.init = Raising) => last.res = Return(FALSE)
    /\ (last.op = "lazy.unwrap" /\ lazy.init = Raising) =>
           last.res.kind = "raise" /\ last.res.exc = "ValueError"

\* A second retrieval from a Lazy whose initializer raises has called the
\* initializer a second time.
C30_Witness ==
    /\ lazy.init = Raising
    /\ last.op \in Retrievals
    /\ last.calls_before = 1
    /\ ninit = 2
    /\ last.res = init_error
    /\ ~lazy.has_value

====
